---- MODULE Spec2Model ----
(***************************************************************************)
(* Model of the mdbook footnote preprocessor (src/src/main.rs).            *)
(*                                                                         *)
(* Text is modelled character by character: a string is a sequence of      *)
(* one-character strings, so that the marker pattern, the inline tokens    *)
(* and the trailing block are compared as the bytes the program produces.  *)
(***************************************************************************)
EXTENDS Integers, Sequences, FiniteSets

(***************************************************************************)
(* Bounds of the model.                                                    *)
(***************************************************************************)
\* Largest number of pieces (see Pieces) concatenated into a chapter body.
MaxPieces == 5
\* Largest number of items (chapters, separators, part titles) of a book.
MaxItems == 2

(***************************************************************************)
(* String literals of the program.                                         *)
(***************************************************************************)
\* main.rs:57, the literal prefix \{\{footnote: of the pattern
Opener == <<"{", "{", "f", "o", "o", "t", "n", "o", "t", "e", ":">>
\* main.rs:57, the literal suffix \}\} of the pattern
Closer == <<"}", "}">>
\* main.rs:57, \s: the regex crate is built with its Unicode tables, so \s is
\* the White_Space property.  A character that the text of this module
\* cannot hold is written by the name of its code point ("U+2003"), which
\* stands for that one character.
\*   U+0009..U+000D (tab, line feed, vertical tab, form feed, carriage
\*   return), U+0020 (space), U+0085 (next line), U+00A0 (no-break space),
\*   U+1680 (ogham space mark)
WhitespaceLiteral ==
    { "\t", "\n", "", "\f", "\r", " ", "", " ", " " }
\*   U+2000..U+200A, U+2028, U+2029, U+202F, U+205F, U+3000
WhitespaceNamed ==
    {
      "U+2000", "U+2001", "U+2002", "U+2003", "U+2004", "U+2005",
      "U+2006", "U+2007", "U+2008", "U+2009", "U+200A", "U+2028",
      "U+2029", "U+202F", "U+205F", "U+3000" }
Whitespace == WhitespaceLiteral \cup WhitespaceNamed

\* main.rs:127, "[^{}]"
MdTokenOpen == <<"[", "^">>
MdTokenClose == <<"]">>
\* main.rs:130, "<sup><a name=\"to-footnote-{}\">[{}](#footnote-{})</a></sup>"
HtmlTokenA == <<"<", "s", "u", "p", ">", "<", "a", " ", "n", "a", "m", "e", "=", "\"", "t", "o", "-", "f", "o", "o", "t", "n", "o", "t", "e", "-">>
HtmlTokenB == <<"\"", ">", "[">>
HtmlTokenC == <<"]", "(", "#", "f", "o", "o", "t", "n", "o", "t", "e", "-">>
HtmlTokenD == <<")", "<", "/", "a", ">", "<", "/", "s", "u", "p", ">">>
\* main.rs:139, "<p><hr/>\n"
MdSeparator == <<"<", "p", ">", "<", "h", "r", "/", ">", "\n">>
\* main.rs:141, "\n---\n"
HtmlSeparator == <<"\n", "-", "-", "-", "\n">>
\* main.rs:145, "\n\n[^{}]: {}"
MdEntryA == <<"\n", "\n", "[", "^">>
MdEntryB == <<"]", ":", " ">>
\* main.rs:148, "\n\n<a name=\"footnote-{}\">[{}](#to-footnote-{})</a>: {}"
HtmlEntryA == <<"\n", "\n", "<", "a", " ", "n", "a", "m", "e", "=", "\"", "f", "o", "o", "t", "n", "o", "t", "e", "-">>
HtmlEntryB == <<"\"", ">", "[">>
HtmlEntryC == <<"]", "(", "#", "t", "o", "-", "f", "o", "o", "t", "n", "o", "t", "e", "-">>
HtmlEntryD == <<")", "<", "/", "a", ">", ":", " ">>

\* main.rs:60-65, the renderers known to deal in HTML
HTML_RENDERERS == {"html", "linkcheck"}

(***************************************************************************)
(* Formatting of an index: format!("{}", idx) writes a usize in decimal.   *)
(***************************************************************************)
DigitChar == <<"0", "1", "2", "3", "4", "5", "6", "7", "8", "9">>

RECURSIVE Display(_)
Display(n) ==
    IF n < 10 THEN <<DigitChar[n + 1]>>
    ELSE Display(n \div 10) \o <<DigitChar[(n % 10) + 1]>>

(***************************************************************************)
(* The marker pattern (?s)\{\{footnote:\s*(?P<content>.*?)\}\}             *)
(***************************************************************************)
\* the literal t occurs in s at position p
HasPrefixAt(s, p, t) ==
    /\ p + Len(t) - 1 <= Len(s)
    /\ \A k \in 1..Len(t) : s[p + k - 1] = t[k]

\* Variant of SkipWhitespace for a pattern without \s*: nothing is skipped.
SkipNothing(s, p) == p

\* \s* is greedy: the first position from p on that holds no whitespace
RECURSIVE SkipWhitespace(_, _)
SkipWhitespace(s, p) ==
    IF p <= Len(s) /\ s[p] \in Whitespace THEN SkipWhitespace(s, p + 1) ELSE p

\* Variant of FindClose for a greedy .* : the last closing token from p on.
FindCloseLast(s, p) ==
    LET S == { q \in p..(Len(s) - 1) : HasPrefixAt(s, q, Closer) }
    IN  IF S = {} THEN 0 ELSE CHOOSE q \in S : \A r \in S : r <= q

\* .*? is lazy and (?s) lets . match a newline: the first position from p on
\* where the closing token starts, 0 when there is none
FindClose(s, p) ==
    LET S == { q \in p..(Len(s) - 1) : HasPrefixAt(s, q, Closer) }
    IN  IF S = {} THEN 0 ELSE CHOOSE q \in S : \A r \in S : q <= r

NoMatch == [start |-> 0, cstart |-> 0, cend |-> 0, end |-> 0]

\* Variant of MatchAt that takes the end of the text for a closing token.
MatchAtUnterminated(s, p) ==
    IF ~HasPrefixAt(s, p, Opener) THEN NoMatch
    ELSE LET c == SkipWhitespace(s, p + Len(Opener))
             q == FindClose(s, c)
         IN  IF q = 0
             THEN [start |-> p, cstart |-> c, cend |-> Len(s) + 1, end |-> Len(s) + 1]
             ELSE [start |-> p, cstart |-> c, cend |-> q, end |-> q + Len(Closer)]

\* The match of the pattern that starts at p: the whole match is
\* s[start .. end-1] and the group "content" is s[cstart .. cend-1].
MatchAt(s, p) ==
    IF ~HasPrefixAt(s, p, Opener) THEN NoMatch
    ELSE LET c == SkipWhitespace(s, p + Len(Opener))
             q == FindClose(s, c)
         IN  IF q = 0 THEN NoMatch
             ELSE [start |-> p, cstart |-> c, cend |-> q, end |-> q + Len(Closer)]

\* The leftmost match that starts at from or later (the next item of the
\* iterator behind replace_all), NoMatch when there is none.
FOOTNOTE_RE(s, from) ==
    LET S == { p \in from..Len(s) : MatchAt(s, p) # NoMatch }
    IN  IF S = {} THEN NoMatch
        ELSE MatchAt(s, CHOOSE p \in S : \A q \in S : p <= q)

\* s[a .. b-1]
Slice(s, a, b) == IF b <= a THEN <<>> ELSE SubSeq(s, a, b - 1)

(***************************************************************************)
(* The renderer: inline token, separator and entries of the two styles.    *)
(***************************************************************************)
\* main.rs:126-133, the value the closure returns
InlineToken(md, idx) ==
    IF md THEN MdTokenOpen \o Display(idx) \o MdTokenClose
    ELSE HtmlTokenA \o Display(idx) \o HtmlTokenB \o Display(idx)
         \o HtmlTokenC \o Display(idx) \o HtmlTokenD

\* main.rs:138-142
SeparatorText(md) == IF md THEN MdSeparator ELSE HtmlSeparator

\* Variant of EntryLine that writes the position enumerate() yields as it is.
EntryLineZeroBased(md, idx, content) ==
    IF md THEN MdEntryA \o Display(idx) \o MdEntryB \o content
    ELSE HtmlEntryA \o Display(idx) \o HtmlEntryB \o Display(idx)
         \o HtmlEntryC \o Display(idx) \o HtmlEntryD \o content

\* main.rs:144-154, idx is the 0-based position that enumerate() yields
EntryLine(md, idx, content) ==
    IF md THEN MdEntryA \o Display(idx + 1) \o MdEntryB \o content
    ELSE HtmlEntryA \o Display(idx + 1) \o HtmlEntryB \o Display(idx + 1)
         \o HtmlEntryC \o Display(idx + 1) \o HtmlEntryD \o content

\* main.rs:143-155, the loop over footnotes.into_iter().enumerate()
RECURSIVE AppendEntries(_, _, _, _)
AppendEntries(md, text, fs, idx) ==
    IF idx >= Len(fs) THEN text
    ELSE AppendEntries(md, text \o EntryLine(md, idx, fs[idx + 1]), fs, idx + 1)

(***************************************************************************)
(* Footnote::new                                                           *)
(***************************************************************************)
\* Variant of MdFootnotes that reads the value without looking at its type.
MdFootnotesUntyped(value) == value.val = "true"

\* main.rs:87-93: the value under preprocessor.footnote.markdown, Boolean or not
MdFootnotes(value) ==
    IF value.type = "Boolean" THEN value.val = "true" ELSE FALSE

\* main.rs:79-86 and 96-99: the advisory warnings that new() logs
Warnings(c) ==
    (IF c.mdbook_version # "built" THEN {"version"} ELSE {})
      \cup (IF ~MdFootnotes(c.config) /\ c.renderer \notin HTML_RENDERERS
            THEN {"renderer"} ELSE {})

(***************************************************************************)
(* One chapter: replace_all with the closure, then the trailing block.     *)
(***************************************************************************)
\* State of replace_all before its first match: nothing consumed or written,
\* no match handed to the closure yet (caps), and the closure's vector as it
\* was created at main.rs:120.
ScanStart == [pos |-> 1, out |-> <<>>, footnotes |-> <<>>, caps |-> <<>>]

\* Variant of ReplaceStep that takes the index before the push.
ReplaceStepZeroBased(md, s, st, m) ==
    LET content == Slice(s, m.cstart, m.cend)
        idx == Len(st.footnotes)
    IN  [pos |-> m.end,
         out |-> st.out \o Slice(s, st.pos, m.start) \o InlineToken(md, idx),
         footnotes |-> Append(st.footnotes, content),
         caps |-> Append(st.caps, m)]

\* Variant of ReplaceStep that writes the token in front of the marker and
\* leaves the marker in the text.
ReplaceStepKeepMarker(md, s, st, m) ==
    LET content == Slice(s, m.cstart, m.cend)
        pushed == Append(st.footnotes, content)
    IN  [pos |-> m.end,
         out |-> st.out \o Slice(s, st.pos, m.start) \o InlineToken(md, Len(pushed))
                   \o Slice(s, m.start, m.end),
         footnotes |-> pushed,
         caps |-> Append(st.caps, m)]

\* Variant of ReplaceStep that drops a trailing whitespace character of the
\* content in the markdown style.
ReplaceStepTrimMarkdown(md, s, st, m) ==
    LET content == Slice(s, m.cstart, m.cend)
        trimmed == IF content # <<>> /\ content[Len(content)] \in Whitespace
                   THEN SubSeq(content, 1, Len(content) - 1)
                   ELSE content
        pushed == Append(st.footnotes, IF md THEN trimmed ELSE content)
    IN  [pos |-> m.end,
         out |-> st.out \o Slice(s, st.pos, m.start) \o InlineToken(md, Len(pushed)),
         footnotes |-> pushed,
         caps |-> Append(st.caps, m)]

\* main.rs:122-134: one match m of the pattern in s, handed to the closure.
\* The text between the previous match and this one is copied, the content
\* is pushed, and the token of the new length of the vector is written.
ReplaceStep(md, s, st, m) ==
    LET content == Slice(s, m.cstart, m.cend)
        pushed == Append(st.footnotes, content)
        idx == Len(pushed)
    IN  [pos |-> m.end,
         out |-> st.out \o Slice(s, st.pos, m.start) \o InlineToken(md, idx),
         footnotes |-> pushed,
         caps |-> Append(st.caps, m)]

\* main.rs:121-135: replace_all has no further match; the rest is copied
ReplaceRest(s, st) == st.out \o Slice(s, st.pos, Len(s) + 1)

\* main.rs:121-135 as a whole, from the state st on
RECURSIVE ReplaceAll(_, _, _)
ReplaceAll(md, s, st) ==
    LET m == FOOTNOTE_RE(s, st.pos)
    IN  IF m = NoMatch
        THEN [text |-> ReplaceRest(s, st), footnotes |-> st.footnotes]
        ELSE ReplaceAll(md, s, ReplaceStep(md, s, st, m))

\* main.rs:138-155: the separator and the entries, appended to the body
TrailingBlock(md, text, fs) ==
    AppendEntries(md, text \o SeparatorText(md), fs, 0)

\* main.rs:120-156: what the closure of for_each_mut does to chap.content
Transform(md, body) ==
    LET r == ReplaceAll(md, body, ScanStart)
    IN  IF r.footnotes # <<>> THEN TrailingBlock(md, r.text, r.footnotes)
        ELSE r.text

(***************************************************************************)
(* Inputs.  A book is the sequence of its items in document order, each    *)
(* naming its parent (0 for a top-level section); sub_items of a chapter   *)
(* are the items whose parent it is.                                       *)
(***************************************************************************)
\* the pieces chapter bodies are put together from
Pieces == << Opener, Closer, <<"}">>, <<"\n">>, <<"a">> >>

RECURSIVE Flatten(_)
Flatten(ix) ==
    IF ix = <<>> THEN <<>> ELSE Pieces[Head(ix)] \o Flatten(Tail(ix))

\* every concatenation of at most MaxPieces pieces
Bodies ==
    { Flatten(ix) : ix \in UNION { [1..n -> 1..Len(Pieces)] : n \in 0..MaxPieces } }

\* A{{footnote: one}}B{{footnote: two}}C
ScenarioBody ==
    << "A", "{", "{", "f", "o", "o", "t", "n", "o", "t", "e", ":", " ", "o",
       "n", "e", "}", "}", "B", "{", "{", "f", "o", "o", "t", "n", "o", "t",
       "e", ":", " ", "t", "w", "o", "}", "}", "C" >>

\* bodies of the chapters of a book with several items: no marker, one
\* marker (after the colon a space, a form feed, a no-break space and an
\* em space; a space before the closing token), two markers
TreeBodies ==
    { <<"a">>,
      Opener \o <<" ", "\f", " ", "U+2003", "a", " ">> \o Closer,
      ScenarioBody }

Chapter(name, content, parent) ==
    [kind |-> "Chapter", name |-> name, content |-> content, parent |-> parent]

\* BookItem::Separator and BookItem::PartTitle carry no chapter body
Other(kind, name, parent) ==
    [kind |-> kind, name |-> name, content |-> <<>>, parent |-> parent]

Items(n) ==
    { Chapter("chapter", b, p) : b \in TreeBodies, p \in 0..(n - 1) }
      \cup { Other("Separator", "", p) : p \in 0..(n - 1) }
      \cup { Other("PartTitle", "part", p) : p \in 0..(n - 1) }

\* only a chapter has sub_items, and a parent comes before its children
WellFormed(b) ==
    \A i \in 1..Len(b) :
        b[i].parent # 0 => b[i].parent < i /\ b[b[i].parent].kind = "Chapter"

Books ==
    { b \in UNION { [1..n -> Items(n)] : n \in 1..MaxItems } : WellFormed(b) }

\* the books of one chapter, with every body of Bodies
ChapterBooks == { <<Chapter("chapter", b, 0)>> : b \in Bodies }

\* the value under the key preprocessor.footnote.markdown of the configuration
ConfigValues ==
    { [type |-> "None", val |-> ""],
      [type |-> "Boolean", val |-> "true"],
      [type |-> "Boolean", val |-> "false"],
      [type |-> "String", val |-> "true"],
      [type |-> "Integer", val |-> "1"] }

Contexts ==
    [mdbook_version : {"built", "other"},
     config : ConfigValues,
     renderer : {"html", "markdown"}]

(***************************************************************************)
(* State.                                                                  *)
(***************************************************************************)
VARIABLES
    ctx,           \* the PreprocessorContext handed to new() and run()
    book0,         \* the book handed to run()
    book,          \* the book as run() has rewritten it so far
    pc,            \* "new", "walk", "replace", "append" or "done"
    md_footnotes,  \* Footnote.md_footnotes
    warnings,      \* what new() has logged with warn!
    visited,       \* the items for_each_mut has handed to the closure
    cur,           \* the item the closure was last called on, 0 when none
    scan,          \* replace_all's position and output, the closure's footnotes
    result         \* what run() returned

vars == <<ctx, book0, book, pc, md_footnotes, warnings, visited, cur, scan, result>>

InitRun ==
    /\ book = book0
    /\ pc = "new"
    /\ md_footnotes = FALSE
    /\ warnings = {}
    /\ visited = {}
    /\ cur = 0
    /\ scan = ScanStart
    /\ result = "none"

\* the contexts of the html renderer that set the key to a boolean: one for
\* each of the two styles
StyleContexts ==
    { c \in Contexts : /\ c.mdbook_version = "built"
                       /\ c.renderer = "html"
                       /\ c.config.type = "Boolean" }

\* new() does not read the book and run() does not read the context: every
\* context is tried with the books of one item, and every book, of several
\* items or of one chapter with any body of Bodies, with the two styles.
Init ==
    /\ \/ ctx \in Contexts /\ book0 \in { b \in Books : Len(b) = 1 }
       \/ ctx \in StyleContexts /\ book0 \in Books \cup ChapterBooks
    /\ InitRun

(***************************************************************************)
(* Actions.                                                                *)
(***************************************************************************)
\* main.rs:75-103, Footnote::new
New ==
    /\ pc = "new"
    /\ md_footnotes' = MdFootnotes(ctx.config)
    /\ warnings' = Warnings(ctx)
    /\ pc' = "walk"
    /\ UNCHANGED <<ctx, book0, book, visited, cur, scan, result>>

\* Variant of VisitChapter that rewrites the top-level chapters only.
VisitChapterTopLevel(i) ==
    /\ pc = "walk"
    /\ i \in (1..Len(book)) \ visited
    /\ book[i].kind = "Chapter"
    /\ cur' = i
    /\ scan' = ScanStart
    /\ IF book[i].parent = 0
       THEN pc' = "replace" /\ UNCHANGED visited
       ELSE visited' = visited \cup {i} /\ UNCHANGED pc
    /\ UNCHANGED <<ctx, book0, book, md_footnotes, warnings, result>>

\* Variant of VisitChapter with one vector of footnotes for the whole run.
VisitChapterKeepFootnotes(i) ==
    /\ pc = "walk"
    /\ i \in (1..Len(book)) \ visited
    /\ book[i].kind = "Chapter"
    /\ cur' = i
    /\ scan' = [ScanStart EXCEPT !.footnotes = scan.footnotes]
    /\ pc' = "replace"
    /\ UNCHANGED <<ctx, book0, book, md_footnotes, warnings, visited, result>>

\* main.rs:118-120: for_each_mut hands a chapter to the closure, which
\* creates its vector of footnotes and starts replace_all on the body.
VisitChapter(i) ==
    /\ pc = "walk"
    /\ i \in (1..Len(book)) \ visited
    /\ book[i].kind = "Chapter"
    /\ cur' = i
    /\ scan' = ScanStart
    /\ pc' = "replace"
    /\ UNCHANGED <<ctx, book0, book, md_footnotes, warnings, visited, result>>

\* main.rs:118-119: the closure does nothing for an item that is no chapter
VisitOther(i) ==
    /\ pc = "walk"
    /\ i \in (1..Len(book)) \ visited
    /\ book[i].kind # "Chapter"
    /\ visited' = visited \cup {i}
    /\ cur' = i
    /\ UNCHANGED <<ctx, book0, book, pc, md_footnotes, warnings, scan, result>>

\* main.rs:122-134: replace_all finds the next match and calls the closure
Replacement ==
    /\ pc = "replace"
    /\ LET m == FOOTNOTE_RE(book[cur].content, scan.pos)
       IN  /\ m # NoMatch
           /\ scan' = ReplaceStep(md_footnotes, book[cur].content, scan, m)
    /\ UNCHANGED <<ctx, book0, book, pc, md_footnotes, warnings, visited, cur, result>>

\* main.rs:121-135: no further match, the new text is assigned to chap.content
ReplaceAllDone ==
    /\ pc = "replace"
    /\ FOOTNOTE_RE(book[cur].content, scan.pos) = NoMatch
    /\ book' = [book EXCEPT ![cur].content = ReplaceRest(book[cur].content, scan)]
    /\ pc' = "append"
    /\ UNCHANGED <<ctx, book0, md_footnotes, warnings, visited, cur, scan, result>>

\* main.rs:137-156: footnotes were found, the block is appended
AppendFootnotes ==
    /\ pc = "append"
    /\ scan.footnotes # <<>>
    /\ book' = [book EXCEPT ![cur].content =
                    TrailingBlock(md_footnotes, book[cur].content, scan.footnotes)]
    /\ visited' = visited \cup {cur}
    /\ pc' = "walk"
    /\ UNCHANGED <<ctx, book0, md_footnotes, warnings, cur, scan, result>>

\* main.rs:137: no footnote was found, nothing is appended
NoFootnotes ==
    /\ pc = "append"
    /\ scan.footnotes = <<>>
    /\ visited' = visited \cup {cur}
    /\ pc' = "walk"
    /\ UNCHANGED <<ctx, book0, book, md_footnotes, warnings, cur, scan, result>>

\* main.rs:159: every item was visited, run() returns Ok(book)
Return ==
    /\ pc = "walk"
    /\ visited = 1..Len(book)
    /\ result' = "Ok"
    /\ pc' = "done"
    /\ UNCHANGED <<ctx, book0, book, md_footnotes, warnings, visited, cur, scan>>

Next ==
    \/ New
    \/ \E i \in 1..MaxItems : VisitChapter(i)
    \/ \E i \in 1..MaxItems : VisitOther(i)
    \/ Replacement
    \/ ReplaceAllDone
    \/ AppendFootnotes
    \/ NoFootnotes
    \/ Return

Spec == Init /\ [][Next]_vars

(***************************************************************************)
(* Vocabulary of the properties.                                           *)
(***************************************************************************)
\* the closure was last called on a chapter
OnChapter == cur # 0 /\ book[cur].kind = "Chapter"

\* the closure has returned from the chapter it was last called on
Finished == OnChapter /\ pc \in {"walk", "done"}

\* the body of that chapter as run() received it, and as it is now
Body0 == book0[cur].content
Out == book[cur].content

\* a closing token starts somewhere in s at from or later
HasClose(s, from) == \E q \in from..(Len(s) - 1) : s[q] = "}" /\ s[q + 1] = "}"

\* the marker pattern matches at p: an opening token at p and a closing
\* token somewhere after it
IsMarkerAt(s, p) == HasPrefixAt(s, p, Opener) /\ HasClose(s, p + Len(Opener))

HasMarker(s) == \E p \in 1..Len(s) : IsMarkerAt(s, p)

\* the positions of s where the literal t occurs
Occ(s, t) == { p \in 1..Len(s) : HasPrefixAt(s, p, t) }

\* the k-th smallest member of a set of numbers
Kth(S, k) == CHOOSE p \in S : Cardinality({ q \in S : q < p }) = k - 1

(***************************************************************************)
(* C3.  A body in which the marker pattern has no match, an opening token  *)
(* with no closing token after it included, is left as it was, in both     *)
(* styles: nothing is substituted and nothing is appended.                 *)
(***************************************************************************)
C3_NoMarkerUnchanged ==
    \A i \in 1..Len(book) :
        (book0[i].kind = "Chapter" /\ ~HasMarker(book0[i].content)) =>
            /\ book[i].content = book0[i].content
            /\ (cur = i /\ pc # "replace") => scan.footnotes = <<>>

\* a finished chapter whose body opens a marker and never closes it
C3_Witness ==
    /\ Finished
    /\ HasPrefixAt(Body0, 1, Opener \o <<"a">>)
    /\ Occ(Body0, <<"}">>) # {}
    /\ ~HasMarker(Body0)

(***************************************************************************)
(* C8.  new() selects the markdown style exactly when the value under the  *)
(* key preprocessor.footnote.markdown is the boolean true; an absent key,  *)
(* the boolean false and a value of another type select the hyperlink      *)
(* style, whatever the renderer and the host version are.                  *)
(***************************************************************************)
C8_StyleSelection ==
    pc # "new" =>
        md_footnotes = (ctx.config = [type |-> "Boolean", val |-> "true"])

\* the string "true" under the key, a renderer outside the HTML ones and a
\* host of another version: the hyperlink style is selected
C8_Witness ==
    /\ pc # "new"
    /\ ctx.config = [type |-> "String", val |-> "true"]
    /\ ctx.renderer = "markdown"
    /\ ctx.mdbook_version = "other"
    /\ md_footnotes = FALSE

(***************************************************************************)
(* C10.  The matches are found in one pass from left to right and do not   *)
(* overlap; none is skipped.  The content of a match starts after the      *)
(* opening token and all whitespace that follows it and ends just before   *)
(* the first closing token after that: it holds no closing token, does not *)
(* start with whitespace, keeps its trailing whitespace, and is empty for  *)
(* {{footnote:}}, which is an entry all the same.                          *)
(***************************************************************************)
C10_Match(s, prev, m, content) ==
    /\ prev <= m.start
    /\ \A p \in prev..(m.start - 1) : ~IsMarkerAt(s, p)
    /\ HasPrefixAt(s, m.start, Opener)
    /\ m.start + Len(Opener) <= m.cstart
    /\ m.cstart <= m.cend
    /\ \A p \in (m.start + Len(Opener))..(m.cstart - 1) : s[p] \in Whitespace
    /\ HasPrefixAt(s, m.cend, Closer)
    /\ m.end = m.cend + Len(Closer)
    /\ \A p \in m.cstart..(m.cend - 1) : ~HasPrefixAt(s, p, Closer)
    /\ m.cstart < m.cend => s[m.cstart] \notin Whitespace
    /\ content = Slice(s, m.cstart, m.cend)
    /\ HasPrefixAt(s, m.start, Opener \o Closer) => content = <<>>

C10_Scanner ==
    (OnChapter /\ pc # "new") =>
        LET s == book0[cur].content
            caps == scan.caps
            n == Len(caps)
        IN  /\ Len(scan.footnotes) = n
            /\ \A k \in 1..n :
                 C10_Match(s, IF k = 1 THEN 1 ELSE caps[k - 1].end, caps[k],
                           scan.footnotes[k])
            /\ scan.pos = (IF n = 0 THEN 1 ELSE caps[n].end)
            /\ pc # "replace" => \A p \in scan.pos..Len(s) : ~IsMarkerAt(s, p)

\* one marker whose leading newline was dropped and whose trailing newline
\* was kept
C10_Witness ==
    /\ Finished
    /\ Len(scan.caps) = 1
    /\ scan.caps[1].cstart = scan.caps[1].start + Len(Opener) + 1
    /\ scan.footnotes[1] = <<"a", "\n">>

(***************************************************************************)
(* The output of a chapter as the two styles define it, written from the   *)
(* matches (caps) and the contents (fs) of a run over the body s.          *)
(***************************************************************************)
\* [^i]  and  <sup><a name="to-footnote-i">[i](#footnote-i)</a></sup>
ExpectedToken(md, i) ==
    IF md THEN <<"[", "^">> \o Display(i) \o <<"]">>
    ELSE HtmlTokenA \o Display(i) \o <<"\"", ">", "[">> \o Display(i)
         \o HtmlTokenC \o Display(i) \o HtmlTokenD

\* \n\n[^i]: content  and  \n\n<a name="footnote-i">[i](#to-footnote-i)</a>: content
ExpectedEntry(md, i, content) ==
    IF md THEN <<"\n", "\n", "[", "^">> \o Display(i) \o <<"]", ":", " ">> \o content
    ELSE HtmlEntryA \o Display(i) \o <<"\"", ">", "[">> \o Display(i)
         \o HtmlEntryC \o Display(i) \o HtmlEntryD \o content

\* the body up to the end of the k-th match, each match replaced by its token
RECURSIVE ExpectedPrefix(_, _, _, _)
ExpectedPrefix(md, s, caps, k) ==
    IF k = 0 THEN <<>>
    ELSE ExpectedPrefix(md, s, caps, k - 1)
         \o Slice(s, IF k = 1 THEN 1 ELSE caps[k - 1].end, caps[k].start)
         \o ExpectedToken(md, k)

\* the marker-substituted body
ExpectedSubstituted(md, s, caps) ==
    ExpectedPrefix(md, s, caps, Len(caps))
      \o Slice(s, IF caps = <<>> THEN 1 ELSE caps[Len(caps)].end, Len(s) + 1)

\* the entries 1..k
RECURSIVE ExpectedEntries(_, _, _)
ExpectedEntries(md, fs, k) ==
    IF k = 0 THEN <<>>
    ELSE ExpectedEntries(md, fs, k - 1) \o ExpectedEntry(md, k, fs[k])

ExpectedSeparator(md) ==
    IF md THEN <<"<", "p", ">", "<", "h", "r", "/", ">", "\n">>
    ELSE <<"\n", "-", "-", "-", "\n">>

ExpectedBody(md, s, caps, fs) ==
    IF fs = <<>> THEN s
    ELSE ExpectedSubstituted(md, s, caps) \o ExpectedSeparator(md)
         \o ExpectedEntries(md, fs, Len(fs))

\* where an inline token and where an entry of the block starts
TokenStart(md) == IF md THEN <<"[", "^">> ELSE <<"<", "s", "u", "p", ">">>
EntryStart(md) ==
    IF md THEN <<"\n", "\n", "[", "^">> ELSE <<"\n", "\n", "<", "a", " ">>
EntryHead(md, i) == ExpectedEntry(md, i, <<>>)

\* the content of the k-th marker of the chapter the closure was last called on
MarkerContent(k) == Slice(Body0, scan.caps[k].cstart, scan.caps[k].cend)

(***************************************************************************)
(* C1.  A chapter with N >= 1 matches has, in either style, exactly N      *)
(* inline tokens, which carry 1..N from left to right, and exactly one     *)
(* trailing block of N entries, which carry 1..N in the same order; entry  *)
(* k holds the content of the k-th marker.                                 *)
(***************************************************************************)
C1_CountsAndOrder ==
    (Finished /\ scan.caps # <<>>) =>
        LET md == md_footnotes
            n == Len(scan.caps)
            seps == Occ(Out, SeparatorText(md))
            sep == CHOOSE p \in seps : TRUE
            block == sep + Len(SeparatorText(md))
            toks == { p \in Occ(Out, TokenStart(md)) : p < sep }
            ents == { p \in Occ(Out, EntryStart(md)) : p >= block }
        IN  /\ Cardinality(seps) = 1
            /\ Cardinality(toks) = n
            /\ \A k \in 1..n : HasPrefixAt(Out, Kth(toks, k), InlineToken(md, k))
            /\ Cardinality(ents) = n
            /\ block \in ents
            /\ \A k \in 1..n :
                 Slice(Out, Kth(ents, k),
                       IF k = n THEN Len(Out) + 1 ELSE Kth(ents, k + 1))
                   = EntryLine(md, k - 1, MarkerContent(k))

\* two markers of different contents, the first of them not empty
C1_Witness ==
    /\ Finished
    /\ Len(scan.caps) = 2
    /\ MarkerContent(1) = <<"a">>
    /\ MarkerContent(2) = <<>>
    /\ md_footnotes = FALSE

(***************************************************************************)
(* C2.  The new body of a chapter with a marker is the body with each      *)
(* match replaced in place by its token, then the separator of the style,  *)
(* then the entry of each footnote in the order of the indices; the token  *)
(* is the one of the style and the index, whatever the content is.         *)
(***************************************************************************)
C2_ExactBody ==
    /\ (OnChapter /\ pc = "append") =>
           Out = ExpectedSubstituted(md_footnotes, Body0, scan.caps)
    /\ (Finished /\ scan.caps # <<>>) =>
           Out = ExpectedSubstituted(md_footnotes, Body0, scan.caps)
                   \o ExpectedSeparator(md_footnotes)
                   \o ExpectedEntries(md_footnotes, scan.footnotes, Len(scan.caps))

\* A[^1]B[^2]C<p><hr/>\n\n\n[^1]: one\n\n[^2]: two
ScenarioMarkdown ==
    << "A", "[", "^", "1", "]", "B", "[", "^", "2", "]", "C", "<", "p", ">",
       "<", "h", "r", "/", ">", "\n", "\n", "\n", "[", "^", "1", "]", ":",
       " ", "o", "n", "e", "\n", "\n", "[", "^", "2", "]", ":", " ", "t",
       "w", "o" >>

\* the scenario of the markdown style
C2_Witness ==
    /\ Finished
    /\ md_footnotes = TRUE
    /\ Body0 = ScenarioBody
    /\ Out = ScenarioMarkdown

(***************************************************************************)
(* C4.  When the closure has returned from a chapter, the body holds no    *)
(* match of the marker pattern, whatever opening and closing tokens the    *)
(* contents and the text between the markers hold, and it ends with the    *)
(* block of the footnotes when a marker was found: the separator, then     *)
(* the entries 1..N, each with its head, up to the end of the body.        *)
(***************************************************************************)
C4_NoMarkerLeft ==
    Finished =>
        /\ ~HasMarker(Out)
        /\ scan.caps # <<>> =>
             LET md == md_footnotes
                 n == Len(scan.caps)
                 seps == Occ(Out, ExpectedSeparator(md))
                 block == (CHOOSE p \in seps : \A q \in seps : q <= p)
                            + Len(ExpectedSeparator(md))
                 ents == { p \in Occ(Out, EntryStart(md)) : p >= block }
             IN  /\ seps # {}
                 /\ block \in ents
                 /\ Cardinality(ents) = n
                 /\ \A k \in 1..n : HasPrefixAt(Out, Kth(ents, k), EntryHead(md, k))
                 /\ Occ(Out, TokenStart(md)) \cap { p \in 1..Len(Out) : p >= block }
                      = (IF md THEN { p + 2 : p \in ents } ELSE {})

\* a content that holds an opening token and a closing token left in the text
C4_Witness ==
    /\ Finished
    /\ scan.caps # <<>>
    /\ Occ(scan.footnotes[1], Opener) # {}
    /\ Occ(Out, Closer) # {}
    /\ Occ(Out, Opener) # {}

(***************************************************************************)
(* C5, as stated: some body with a marker, in some style, is changed by a  *)
(* second run over the body the first run put out.  The bodies are those   *)
(* of the book at hand and every body of Bodies.                           *)
(***************************************************************************)
C5_SecondRunDiffers ==
    \E md \in BOOLEAN :
        \E b \in Bodies \cup { book0[i].content : i \in 1..Len(book0) } :
            /\ HasMarker(b)
            /\ Transform(md, Transform(md, b)) # Transform(md, b)

(***************************************************************************)
(* C5, amended.  The first run changes every body that has a marker (the   *)
(* markers are consumed), and a second run over the body it put out        *)
(* changes nothing: the transformation of a chapter is idempotent.         *)
(***************************************************************************)
C5_SecondRunIsIdentity ==
    Finished =>
        /\ scan.caps # <<>> => Out # Body0
        /\ Transform(md_footnotes, Out) = Out

\* a chapter with two markers, finished
C5_Witness ==
    /\ Finished
    /\ Len(scan.caps) = 2
    /\ Out # Body0
    /\ Occ(Out, <<"}">>) # {}

(***************************************************************************)
(* C6.  The other style, run over the same body, finds the same number of  *)
(* footnotes with the same contents in the same order and substitutes at   *)
(* the same places: its output is the rendering in that style of the       *)
(* matches and contents of this run, and differs from this output in the   *)
(* tokens, the separator and the heads of the entries only.                *)
(***************************************************************************)
C6_StyleIndependent ==
    Finished =>
        LET md == md_footnotes
            other == Transform(~md, Body0)
            n == Len(scan.footnotes)
        IN  /\ other = ExpectedBody(~md, Body0, scan.caps, scan.footnotes)
            /\ Out = ExpectedBody(md, Body0, scan.caps, scan.footnotes)
            /\ Cardinality(Occ(other, TokenStart(~md)))
                 = (IF md THEN n ELSE 2 * n)
            /\ Cardinality(Occ(Out, TokenStart(md)))
                 = (IF md THEN 2 * n ELSE n)

\* A<sup>..1..</sup>B<sup>..2..</sup>C\n---\n\n\n<a ..1..</a>: one\n\n<a ..2..</a>: two
ScenarioHyperlink ==
    << "A", "<", "s", "u", "p", ">", "<", "a", " ", "n", "a", "m", "e", "=",
       "\"", "t", "o", "-", "f", "o", "o", "t", "n", "o", "t", "e", "-", "1",
       "\"", ">", "[", "1", "]", "(", "#", "f", "o", "o", "t", "n", "o", "t",
       "e", "-", "1", ")", "<", "/", "a", ">", "<", "/", "s", "u", "p", ">",
       "B", "<", "s", "u", "p", ">", "<", "a", " ", "n", "a", "m", "e", "=",
       "\"", "t", "o", "-", "f", "o", "o", "t", "n", "o", "t", "e", "-", "2",
       "\"", ">", "[", "2", "]", "(", "#", "f", "o", "o", "t", "n", "o", "t",
       "e", "-", "2", ")", "<", "/", "a", ">", "<", "/", "s", "u", "p", ">",
       "C", "\n", "-", "-", "-", "\n", "\n", "\n", "<", "a", " ", "n", "a",
       "m", "e", "=", "\"", "f", "o", "o", "t", "n", "o", "t", "e", "-", "1",
       "\"", ">", "[", "1", "]", "(", "#", "t", "o", "-", "f", "o", "o", "t",
       "n", "o", "t", "e", "-", "1", ")", "<", "/", "a", ">", ":", " ", "o",
       "n", "e", "\n", "\n", "<", "a", " ", "n", "a", "m", "e", "=", "\"",
       "f", "o", "o", "t", "n", "o", "t", "e", "-", "2", "\"", ">", "[", "2",
       "]", "(", "#", "t", "o", "-", "f", "o", "o", "t", "n", "o", "t", "e",
       "-", "2", ")", "<", "/", "a", ">", ":", " ", "t", "w", "o" >>

\* the scenario of the hyperlink style, whose markdown rendering is the
\* scenario of the markdown style
C6_Witness ==
    /\ Finished
    /\ md_footnotes = FALSE
    /\ Out = ScenarioHyperlink
    /\ Transform(TRUE, Body0) = ScenarioMarkdown

(***************************************************************************)
(* C7.  run() returns Ok and the book it was given with the body of every  *)
(* chapter, sub-chapters included, rewritten by the transformation and     *)
(* nothing else changed: the number, order and nesting of the items, the   *)
(* items that are no chapters and the other fields of the chapters.        *)
(***************************************************************************)
C7_TreePreserved ==
    /\ Len(book) = Len(book0)
    /\ \A i \in 1..Len(book) :
         /\ [book[i] EXCEPT !.content = <<>>] = [book0[i] EXCEPT !.content = <<>>]
         /\ book[i].kind # "Chapter" => book[i] = book0[i]
         /\ (i \notin visited /\ i # cur) => book[i] = book0[i]
    /\ pc = "done" =>
         /\ result = "Ok"
         /\ \A i \in 1..Len(book) :
              book[i].kind = "Chapter" =>
                  book[i].content = Transform(md_footnotes, book0[i].content)
    /\ pc # "done" => result = "none"

\* a chapter and its sub-chapter, both with markers, both rewritten
C7_Witness ==
    /\ pc = "done"
    /\ Len(book) = 2
    /\ book[2].kind = "Chapter"
    /\ book[2].parent = 1
    /\ book0[1].content = ScenarioBody
    /\ HasMarker(book0[2].content)
    /\ book[1].content # book0[1].content
    /\ book[2].content # book0[2].content

(***************************************************************************)
(* C9.  The footnotes are empty when the closure starts on a chapter and   *)
(* the first marker of a chapter gets the index 1, whatever was processed  *)
(* before; the output of a chapter is a function of its body and the style *)
(* alone, so the order in which the chapters are visited does not matter.  *)
(***************************************************************************)
C9_PerChapterNumbering ==
    /\ (pc = "replace" /\ scan.pos = 1) =>
           scan.footnotes = <<>> /\ scan.out = <<>>
    /\ (OnChapter /\ scan.caps # <<>>) =>
           HasPrefixAt(scan.out, scan.caps[1].start, ExpectedToken(md_footnotes, 1))
    /\ \A i \in visited : \A j \in visited :
           (book0[i].kind = "Chapter" /\ book0[j] = book0[i]) => book[j] = book[i]
    /\ \A i \in visited :
           book0[i].kind = "Chapter" =>
               book[i].content = Transform(md_footnotes, book0[i].content)

\* the first chapter was visited after the second, which has two markers,
\* and its only marker got the index 1
C9_Witness ==
    /\ pc = "done"
    /\ Len(book) = 2
    /\ cur = 1
    /\ book0[2].content = ScenarioBody
    /\ Len(scan.caps) = 1
    /\ book[1].content = ExpectedBody(md_footnotes, book0[1].content, scan.caps, scan.footnotes)

====
